---- MODULE Spec2Model ----
(***************************************************************************)
(* Steel tempering optimizer: the master graph builder, the constraint     *)
(* pruner, the cost assigner and the multi-target search of                *)
(* src/src/steel_graph.py, driven by the batch pipeline of                 *)
(* src/src/run_project.py.                                                 *)
(*                                                                         *)
(* Strings the code manipulates character by character (filter keys,       *)
(* column names, steel names) are sequences of one-character strings.      *)
(* Times, temperatures and costs are integers counted in units of 2.5e-5   *)
(* (seconds or degrees), so that the absolute tie tolerance 1e-4 is        *)
(* exactly AbsTol = 4 units.                                               *)
(***************************************************************************)
EXTENDS Integers, Sequences, FiniteSets, TLC

\* ------------------------------------------------------------------ bounds
MaxRecords == 2

MaxQueries == 2

\* ------------------------------------------------------- character strings
\* The characters in use, in code-point order (Python compares strings by
\* code point).
Alphabet ==
  << " ", "%", "(", ")", "A", "B", "C", "D", "E", "F", "G", "H", "I", "J", "K",
     "L", "M", "N", "O", "P", "Q", "R", "S", "T", "U", "V", "W", "X", "Y", "Z",
     "_", "a", "b", "c", "d", "e", "f", "g", "h", "i", "j", "k", "l", "m", "n",
     "o", "p", "q", "r", "s", "t", "u", "v", "w", "x", "y", "z" >>

CharCode(c) == CHOOSE i \in 1..Len(Alphabet) : Alphabet[i] = c

\* str.lower() on one character: "A".."Z" are at 5..30, "a".."z" at 32..57.
LowerChar(c) ==
  LET i == CharCode(c) IN IF i >= 5 /\ i <= 30 THEN Alphabet[i + 27] ELSE c

Lower(s) == [i \in 1..Len(s) |-> LowerChar(s[i])]

RECURSIVE LStrip(_)
LStrip(s) == IF s # <<>> /\ Head(s) = " " THEN LStrip(Tail(s)) ELSE s

RECURSIVE RStrip(_)
RStrip(s) ==
  IF s # <<>> /\ s[Len(s)] = " " THEN RStrip(SubSeq(s, 1, Len(s) - 1)) ELSE s

\* str.strip()
Strip(s) == RStrip(LStrip(s))

\* str.replace(a, b) for a one-character a and a one-character b
ReplaceChar(s, a, b) == [i \in 1..Len(s) |-> IF s[i] = a THEN b ELSE s[i]]

\* str.replace(a, "") for a one-character a
RemoveChar(s, a) == SelectSeq(s, LAMBDA c : c # a)

\* str.replace("wt", ""): non-overlapping occurrences, left to right
RECURSIVE RemoveWt(_)
RemoveWt(s) ==
  IF Len(s) < 2 THEN s
  ELSE IF s[1] = "w" /\ s[2] = "t" THEN RemoveWt(SubSeq(s, 3, Len(s)))
  ELSE <<s[1]>> \o RemoveWt(Tail(s))

\* SteelGraph._normalize_key
NormalizeKey(key) ==
  RemoveWt(RemoveChar(RemoveChar(RemoveChar(
    ReplaceChar(Lower(Strip(key)), " ", "_"), "("), ")"), "%"))

\* Python's `pat in s` for strings
Contains(s, pat) ==
  \E i \in 1..(Len(s) - Len(pat) + 1) : SubSeq(s, i, i + Len(pat) - 1) = pat

\* Python's s1 < s2 for strings
RECURSIVE StrLess(_, _)
StrLess(s1, s2) ==
  IF s2 = <<>> THEN FALSE
  ELSE IF s1 = <<>> THEN TRUE
  ELSE IF Head(s1) = Head(s2) THEN StrLess(Tail(s1), Tail(s2))
  ELSE CharCode(Head(s1)) < CharCode(Head(s2))

\* --------------------------------------------------------------- constants
\* config.DB_CONFIG.KEY_COMPOSITION
KEY_COMPOSITION == << "(", "%", "w", "t", ")" >>

\* The composition column of the dataset, "C (%wt)"
ColC == << "C", " ", "(", "%", "w", "t", ")" >>

\* The other columns of the dataset (their names only matter for the
\* KEY_COMPOSITION test).
COL_STEEL == << "S", "t", "e", "e", "l", " ", "t", "y", "p", "e" >>

COL_TIME ==
  << "T", "e", "m", "p", "e", "r", "i", "n", "g", " ", "t", "i", "m", "e", " ", "(", "s", ")" >>

DfColumns == << COL_STEEL, ColC, COL_TIME >>

\* comp_cols / df_comp_keys: the columns whose name contains "(%wt)"
CompCols == SelectSeq(DfColumns, LAMBDA c : Contains(c, KEY_COMPOSITION))

\* Filter keys the pruner knows literally
K_steel_type == << "s", "t", "e", "e", "l", "_", "t", "y", "p", "e" >>

K_time_range == << "t", "i", "m", "e", "_", "r", "a", "n", "g", "e" >>

K_temperature_range ==
  << "t", "e", "m", "p", "e", "r", "a", "t", "u", "r", "e", "_", "r", "a", "n", "g", "e" >>

K_hardness_range ==
  << "h", "a", "r", "d", "n", "e", "s", "s", "_", "r", "a", "n", "g", "e" >>

\* ------------------------------------------------------------ the dataset
\* The (time, temperature) pairs of the records, in units of 2.5e-5:
\* 10 s at 150 C; 10.000025 s at 150.000125 C (both within the tie tolerance
\* of the former, neither equal to it); 20 s at 150 C.
Processes == { <<400000, 6000000>>, <<400001, 6000005>>, <<800000, 6000000>> }

\* Hardness values (HRC); their labels "Hardness: 50 HRC" < "Hardness: 60 HRC"
HardVals == {50, 60}

SteelNames == { <<"X">>, <<"Y">> }

\* Carbon content (tenths of a percent) of each steel; composition is unique
\* per steel identifier in the dataset.
CarbonOf(s) == IF s = <<"X">> THEN 4 ELSE 8

\* Steel X has records of every process, steel Y of the first one only
ProcessesOf(s) == IF s = <<"X">> THEN Processes ELSE { <<400000, 6000000>> }

RecordsOf(s) ==
  { [steel |-> s, c |-> CarbonOf(s), time |-> p[1], temp |-> p[2], hardness |-> h] :
      p \in ProcessesOf(s), h \in HardVals }

RecordDomain == UNION { RecordsOf(s) : s \in SteelNames }

RECURSIVE SeqsUpTo(_, _)
SeqsUpTo(S, n) ==
  IF n = 0 THEN { <<>> }
  ELSE LET shorter == SeqsUpTo(S, n - 1)
       IN shorter \cup { Append(q, x) : q \in { r \in shorter : Len(r) = n - 1 }, x \in S }

\* A field pd.read_csv found empty: NaN for a number; a steel identifier read
\* from an empty field is the empty name <<>>
NaN == -1

\* One record of the dataset
Record(s, time, temp, h) ==
  [steel |-> s, c |-> CarbonOf(s), time |-> time, temp |-> temp, hardness |-> h]

\* The dataset of the scenarios A and B: (X, 10 s, 200 C, 50 HRC),
\* (X, 20 s, 150 C, 50 HRC), (Y, 5 s, 300 C, 60 HRC)
ScenarioDataset ==
  << Record(<<"X">>, 400000, 8000000, 50),
     Record(<<"X">>, 800000, 6000000, 50),
     Record(<<"Y">>, 200000, 12000000, 60) >>

\* Two records whose temperatures 150 C and 150.001 C differ by more than the
\* tie tolerance of the temperature mode and, divided by the maximum, by less
\* than the tolerance of the balanced mode
NearTemperatureDataset ==
  << Record(<<"X">>, 400000, 6000000, 50), Record(<<"X">>, 400000, 6000040, 60) >>

\* Two records with times below 1 s: 0.5 s and 0.8 s
SubSecondDataset ==
  << Record(<<"X">>, 20000, 6000000, 50), Record(<<"X">>, 32000, 6000000, 60) >>

\* Datasets outside the product of RecordDomain
\* Two records whose temperatures 174.9999 C and 175.000075 C differ by
\* 1.75e-4: more than 1e-6 of the lower one, less than 1e-6 of the higher one
ToleranceEdgeDataset ==
  << Record(<<"X">>, 400000, 6999996, 50), Record(<<"X">>, 400000, 7000003, 60) >>

\* Datasets with a record that misses a required field
MissingHardnessDataset ==
  << Record(<<"X">>, 400000, 6000000, 50), Record(<<"X">>, 800000, 6000000, NaN) >>

MissingSteelDataset ==
  << Record(<<"X">>, 400000, 6000000, 50), Record(<<>>, 800000, 6000000, 60) >>

MissingTemperatureDataset ==
  << Record(<<"X">>, 400000, 6000000, 50), Record(<<"X">>, 800000, NaN, 60) >>

MissingTimeDataset == << Record(<<"X">>, NaN, 6000000, 50) >>

FixedDatasets ==
  { ScenarioDataset, NearTemperatureDataset, SubSecondDataset, ToleranceEdgeDataset,
    MissingHardnessDataset,
    MissingSteelDataset, MissingTemperatureDataset, MissingTimeDataset }

Datasets == (SeqsUpTo(RecordDomain, MaxRecords) \ { <<>> }) \cup FixedDatasets

\* --------------------------------------------------------------- the graph
\* A node is identified by its label; the label is a function of the kind,
\* the steel name, the value and the row id that the builder formats into it.
\* Python formats distinct values to distinct labels.
Node(kind, name, val, id) == [kind |-> kind, name |-> name, val |-> val, id |-> id]

SOURCE == Node("SOURCE", <<>>, 0, 0)

SINK == Node("SINK", <<>>, 0, 0)

\* The attribute dictionary of a node. type = "" stands for a dictionary
\* without the key 'type' (SOURCE and SINK); comp holds the normalized
\* composition keys of a Steel node with their values; has_sort_val tells
\* whether the key 'sort_val' is present.
Attrs(layer, type, value, steel, comp) ==
  [layer |-> layer, type |-> type, value |-> value,
   steel_type |-> steel, steel_type_normalized |-> Lower(Strip(steel)),
   comp |-> comp, has_sort_val |-> FALSE, sort_val |-> 0]

\* An edge with its attribute dictionary: attr is "time", "temperature" or ""
\* (no attribute) and val the attribute's value.
Edge(u, v, attr, val) == [u |-> u, v |-> v, attr |-> attr, val |-> val]

EmptyGraph == [nodes |-> [n \in {} |-> 0], edges |-> {}]

NodesOf(g) == DOMAIN g.nodes

HasNode(g, n) == n \in NodesOf(g)

\* nx.DiGraph.add_node(n, **attrs) for a node that is not in the graph
AddNode(g, n, attrs) ==
  [g EXCEPT !.nodes = [m \in NodesOf(g) \cup {n} |-> IF m = n THEN attrs ELSE g.nodes[m]]]

\* nx.DiGraph.add_edge(u, v, **attrs): an existing edge u->v gets the new attributes
AddEdge(g, u, v, attr, val) ==
  [g EXCEPT !.edges = { e \in g.edges : ~(e.u = u /\ e.v = v) } \cup { Edge(u, v, attr, val) }]

\* nx.DiGraph.remove_nodes_from: the nodes go with their incident edges
RemoveNodes(g, S) ==
  [nodes |-> [n \in NodesOf(g) \ S |-> g.nodes[n]],
   edges |-> { e \in g.edges : e.u \notin S /\ e.v \notin S }]

\* nx.DiGraph.subgraph(S): the induced subgraph
Subgraph(g, S) ==
  [nodes |-> [n \in NodesOf(g) \cap S |-> g.nodes[n]],
   edges |-> { e \in g.edges : e.u \in S /\ e.v \in S }]

Successors(g, n) == { e.v : e \in { d \in g.edges : d.u = n } }

Predecessors(g, n) == { e.u : e \in { d \in g.edges : d.v = n } }

\* nx.descendants(g, n): the nodes reachable from n, n excluded (the graph is acyclic)
RECURSIVE ReachFrom(_, _)
ReachFrom(g, S) ==
  LET next == S \cup UNION { Successors(g, n) : n \in S }
  IN IF next = S THEN S ELSE ReachFrom(g, next)

Descendants(g, n) == ReachFrom(g, {n}) \ {n}

\* nx.ancestors(g, n)
RECURSIVE ReachTo(_, _)
ReachTo(g, S) ==
  LET prev == S \cup UNION { Predecessors(g, n) : n \in S }
  IN IF prev = S THEN S ELSE ReachTo(g, prev)

Ancestors(g, n) == ReachTo(g, {n}) \ {n}

\* ------------------------------------------------------------ the builder
\* steel_compositions.loc[s]: the composition columns of the first row of
\* the steel's group, under their normalized keys
\* SteelGraph.__init__, line 40: dropna removes the rows without a time or a
\* temperature; the other rows keep their index labels
Dropped(row) == row.time = NaN \/ row.temp = NaN

\* The positions of the rows dropna keeps
KeptRows(df) == { i \in 1..Len(df) : ~Dropped(df[i]) }

FirstRowOf(df, s) ==
  df[CHOOSE i \in KeptRows(df) : df[i].steel = s /\ \A j \in KeptRows(df) : j < i => df[j].steel # s]

\* steel_compositions.loc[s] raises KeyError for a row without a steel
\* identifier (groupby leaves NaN keys out), and __init__ re-raises it
BuildRaises(df) == \E i \in KeptRows(df) : df[i].steel = <<>>

SteelComposition(df, s) ==
  { << NormalizeKey(CompCols[k]), FirstRowOf(df, s).c >> : k \in 1..Len(CompCols) }

\* AddRow with the Time node named by its value alone, without the row id
AddRowSharedTime(g, df, row, i) ==
  LET n_steel == Node("steel", row.steel, 0, 0)
      n_time == Node("time", <<>>, row.time, 0)
      n_temp == Node("temp", <<>>, row.temp, i)
      n_hardness == Node("hardness", <<>>, row.hardness, 0)
      g1 == IF HasNode(g, n_steel) THEN g
            ELSE AddEdge(AddNode(g, n_steel,
                                 Attrs(1, "steel", 0, row.steel, SteelComposition(df, row.steel))),
                         SOURCE, n_steel, "", 0)
      g2 == IF HasNode(g1, n_time) THEN g1
            ELSE AddNode(g1, n_time, Attrs(2, "time", row.time, <<>>, {}))
      g3 == IF HasNode(g2, n_temp) THEN g2
            ELSE AddNode(g2, n_temp, Attrs(3, "temp", row.temp, <<>>, {}))
      g4 == IF HasNode(g3, n_hardness) THEN g3
            ELSE AddNode(g3, n_hardness, Attrs(4, "hardness", row.hardness, <<>>, {}))
  IN AddEdge(AddEdge(AddEdge(AddEdge(g4,
        n_steel, n_time, "time", row.time),
        n_time, n_temp, "temperature", row.temp),
        n_temp, n_hardness, "", 0),
        n_hardness, SINK, "", 0)

AddRowSkipTemperature(g, df, row, i) ==
  LET n_steel == Node("steel", row.steel, 0, 0)
      n_time == Node("time", <<>>, row.time, i)
      n_temp == Node("temp", <<>>, row.temp, i)
      n_hardness == Node("hardness", <<>>, row.hardness, 0)
      g1 == IF HasNode(g, n_steel) THEN g
            ELSE AddEdge(AddNode(g, n_steel,
                                 Attrs(1, "steel", 0, row.steel, SteelComposition(df, row.steel))),
                         SOURCE, n_steel, "", 0)
      g2 == IF HasNode(g1, n_time) THEN g1
            ELSE AddNode(g1, n_time, Attrs(2, "time", row.time, <<>>, {}))
      g3 == IF HasNode(g2, n_temp) THEN g2
            ELSE AddNode(g2, n_temp, Attrs(3, "temp", row.temp, <<>>, {}))
      g4 == IF HasNode(g3, n_hardness) THEN g3
            ELSE AddNode(g3, n_hardness, Attrs(4, "hardness", row.hardness, <<>>, {}))
  IN AddEdge(AddEdge(AddEdge(AddEdge(g4,
        n_steel, n_time, "time", row.time),
        n_time, n_temp, "temperature", row.temp),
        n_time, n_hardness, "", 0),
        n_hardness, SINK, "", 0)

\* One iteration of the loop over df.iterrows(); i is the row's index label.
AddRow(g, df, row, i) ==
  LET n_steel == Node("steel", row.steel, 0, 0)
      n_time == Node("time", <<>>, row.time, i)
      n_temp == Node("temp", <<>>, row.temp, i)
      n_hardness == Node("hardness", <<>>, row.hardness, 0)
      g1 == IF HasNode(g, n_steel) THEN g
            ELSE AddEdge(AddNode(g, n_steel,
                                 Attrs(1, "steel", 0, row.steel, SteelComposition(df, row.steel))),
                         SOURCE, n_steel, "", 0)
      g2 == IF HasNode(g1, n_time) THEN g1
            ELSE AddNode(g1, n_time, Attrs(2, "time", row.time, <<>>, {}))
      g3 == IF HasNode(g2, n_temp) THEN g2
            ELSE AddNode(g2, n_temp, Attrs(3, "temp", row.temp, <<>>, {}))
      g4 == IF HasNode(g3, n_hardness) THEN g3
            ELSE AddNode(g3, n_hardness, Attrs(4, "hardness", row.hardness, <<>>, {}))
  IN AddEdge(AddEdge(AddEdge(AddEdge(g4,
        n_steel, n_time, "time", row.time),
        n_time, n_temp, "temperature", row.temp),
        n_temp, n_hardness, "", 0),
        n_hardness, SINK, "", 0)

RECURSIVE BuildRows(_, _, _)
BuildRows(g, df, k) ==
  IF k > Len(df) THEN g
  ELSE IF Dropped(df[k]) THEN BuildRows(g, df, k + 1)
  ELSE BuildRows(AddRow(g, df, df[k], k - 1), df, k + 1)

\* SteelGraph._build_master_graph
BuildMasterGraph(df) ==
  BuildRows(AddNode(AddNode(EmptyGraph, SOURCE, Attrs(0, "", 0, <<>>, {})),
                    SINK, Attrs(5, "", 0, <<>>, {})),
            df, 1)

\* max of a non-empty set of integers
SetMax(S) == CHOOSE x \in S : \A y \in S : y <= x

SetMin(S) == CHOOSE x \in S : \A y \in S : x <= y

\* SteelGraph.__init__: the normalization factors kept with the graph
MaxTimeOf(df) ==
  IF KeptRows(df) = {} THEN 40000
  ELSE LET m == SetMax({ df[i].time : i \in KeptRows(df) }) IN IF m > 0 THEN m ELSE 40000

MaxTempOf(df) ==
  IF KeptRows(df) = {} THEN 40000
  ELSE LET m == SetMax({ df[i].temp : i \in KeptRows(df) }) IN IF m > 0 THEN m ELSE 40000

\* ------------------------------------------------------------ the filters
\* A filter mapping is a Python dict: a sequence of <<key, value>> entries in
\* insertion order. A value is a string (kind "str"), a dict with min/max
\* (kind "range"; either key may be missing, and numeric = FALSE stands for
\* bounds that are strings and cannot be compared with a number) or a dict
\* with op/val (kind "comp").
StrVal(str) ==
  [kind |-> "str", str |-> str, has_min |-> FALSE, has_max |-> FALSE, min |-> 0, max |-> 0,
   numeric |-> TRUE, op |-> "", val |-> 0]

RangeVal(min, max) ==
  [kind |-> "range", str |-> <<>>, has_min |-> TRUE, has_max |-> TRUE, min |-> min, max |-> max,
   numeric |-> TRUE, op |-> "", val |-> 0]

CompVal(op, val) ==
  [kind |-> "comp", str |-> <<>>, has_min |-> FALSE, has_max |-> FALSE, min |-> 0, max |-> 0,
   numeric |-> TRUE, op |-> op, val |-> val]

\* Lines 159-163: normalized_filters, as the sequence of its <<key, value>>
\* items; a later entry with the same normalized key replaces the value
RECURSIVE NormalizedFilters(_, _)
NormalizedFilters(filters, k) ==
  IF k = 0 THEN <<>>
  ELSE LET rest == NormalizedFilters(filters, k - 1)
           key == NormalizeKey(filters[k][1])
       IN IF \E i \in 1..Len(rest) : rest[i][1] = key
            THEN [i \in 1..Len(rest) |-> IF rest[i][1] = key THEN <<key, filters[k][2]>> ELSE rest[i]]
          ELSE Append(rest, <<key, filters[k][2]>>)

\* dict.get on normalized_filters
HasKey(nf, k) == \E i \in 1..Len(nf) : nf[i][1] = k

Get(nf, k) == nf[CHOOSE i \in 1..Len(nf) : nf[i][1] = k][2]

\* df_comp_keys
DfCompKeys == { NormalizeKey(CompCols[k]) : k \in 1..Len(CompCols) }

\* data.get(key) on a Steel node's composition entries
HasComp(attrs, key) == \E p \in attrs.comp : p[1] = key

CompGet(attrs, key) == (CHOOSE p \in attrs.comp : p[1] = key)[2]

\* The comparison of lines 195-199: TRUE when the node is to be removed
CompFails(steel_val, op, val) ==
  \/ op = ">" /\ ~(steel_val > val)
  \/ op = "<" /\ ~(steel_val < val)
  \/ op = "==" /\ ~(steel_val = val)
  \/ op = ">=" /\ ~(steel_val >= val)
  \/ op = "<=" /\ ~(steel_val <= val)

\* Lines 172-204: one item of normalized_filters against one Steel node
SteelFilterFails(attrs, filt_key, op_val) ==
  IF filt_key = K_steel_type
    THEN Lower(Strip(attrs.steel_type_normalized)) # Lower(Strip(op_val.str))
  ELSE IF filt_key \in DfCompKeys
    THEN \/ ~HasComp(attrs, filt_key)
         \/ /\ op_val.kind # "str"
            /\ CompFails(CompGet(attrs, filt_key), op_val.op, op_val.val)
  ELSE FALSE

\* Step 1 of _prune_graph: the Steel nodes to remove
SteelNodesToRemove(g, nf) ==
  { n \in NodesOf(g) :
      /\ g.nodes[n].type = "steel"
      /\ \E i \in 1..Len(nf) : SteelFilterFails(g.nodes[n], nf[i][1], nf[i][2]) }

\* Lines 213-217: the key of range_filters[node_type]
RangeKeyOf(type) ==
  IF type = "time" THEN K_time_range
  ELSE IF type = "temp" THEN K_temperature_range
  ELSE K_hardness_range

\* Lines 221-228: the node type has a truthy range filter with 'min' and 'max'
RangeApplies(nf, type) ==
  /\ type \in {"time", "temp", "hardness"}
  /\ HasKey(nf, RangeKeyOf(type))
  /\ LET f == Get(nf, RangeKeyOf(type)) IN f.has_min /\ f.has_max

\* Step 2 with exclusive bounds: a value equal to min or max is removed
RangeNodesToRemoveExclusive(g, nf) ==
  { n \in NodesOf(g) :
      /\ RangeApplies(nf, g.nodes[n].type)
      /\ LET f == Get(nf, RangeKeyOf(g.nodes[n].type))
         IN ~(g.nodes[n].value # NaN /\ f.min < g.nodes[n].value /\ g.nodes[n].value < f.max) }

\* Step 2 of _prune_graph: the Time/Temperature/Hardness nodes to remove
RangeNodesToRemove(g, nf) ==
  { n \in NodesOf(g) :
      /\ RangeApplies(nf, g.nodes[n].type)
      /\ LET f == Get(nf, RangeKeyOf(g.nodes[n].type))
         IN ~(g.nodes[n].value # NaN /\ f.min <= g.nodes[n].value /\ g.nodes[n].value <= f.max) }

\* Line 230 raises TypeError when a bound is not a number and a node of the
\* filter's type is visited
PruneRaises(g, nf) ==
  \E n \in NodesOf(g) :
    /\ RangeApplies(nf, g.nodes[n].type)
    /\ ~Get(nf, RangeKeyOf(g.nodes[n].type)).numeric

TargetNodes(g) == { n \in NodesOf(g) : g.nodes[n].type = "hardness" }

\* Step 3 returning None whenever no target can be reached from SOURCE
PruneStep3NoneWhenUnreachable(step2) ==
  LET target_nodes == TargetNodes(step2)
      nodes_from_source == Descendants(step2, SOURCE)
      nodes_to_target == UNION { Ancestors(step2, t) : t \in target_nodes }
      valid_nodes == (nodes_from_source \cap nodes_to_target) \cup {SOURCE} \cup target_nodes
  IN IF target_nodes \cap nodes_from_source = {}
       THEN [raised |-> FALSE, none |-> TRUE, g |-> EmptyGraph]
     ELSE [raised |-> FALSE, none |-> FALSE, g |-> Subgraph(step2, valid_nodes)]

\* Step 3 of _prune_graph on the graph step2 that steps 1 and 2 left: None
\* without targets, else the subgraph of the valid nodes
PruneStep3(step2) ==
  LET target_nodes == TargetNodes(step2)
      nodes_from_source == Descendants(step2, SOURCE)
      nodes_to_target == UNION { Ancestors(step2, t) : t \in target_nodes }
      valid_nodes == (nodes_from_source \cap nodes_to_target) \cup {SOURCE} \cup target_nodes
  IN IF target_nodes = {}
       THEN [raised |-> FALSE, none |-> TRUE, g |-> EmptyGraph]
     ELSE [raised |-> FALSE, none |-> FALSE, g |-> Subgraph(step2, valid_nodes)]

\* Step 2 of _prune_graph on the graph step1 that step 1 left, then step 3
PruneStep2(step1, nf) ==
  IF PruneRaises(step1, nf)
    THEN [raised |-> TRUE, none |-> FALSE, g |-> EmptyGraph]
  ELSE PruneStep3(RemoveNodes(step1, RangeNodesToRemove(step1, nf)))

\* Step 1 of _prune_graph with the normalized filters nf, then steps 2 and 3
PruneStep1(copy, nf) ==
  PruneStep2(RemoveNodes(copy, SteelNodesToRemove(copy, nf)), nf)

\* SteelGraph._prune_graph on a copy of the master graph. The result is
\* none (the code returns None), raised (TypeError) or the subgraph g.
PruneCopy(master, filters) ==
  PruneStep1(master, NormalizedFilters(filters, Len(filters)))

\* pruned_graph = self.graph.copy(): the pruner works on a copy
PruneGraph(master, filters) == PruneCopy(master, filters)

\* self.graph after a _prune_graph that removes the nodes from self.graph
\* itself instead of a copy
SelfGraphPrunedInPlace(master, filters) ==
  LET nf == NormalizedFilters(filters, Len(filters))
  IN RemoveNodes(master, SteelNodesToRemove(master, nf) \cup RangeNodesToRemove(master, nf))

\* self.graph after _prune_graph has run: the removals of steps 1 and 2 act on
\* the copy made at line 154, never on self.graph
SelfGraphAfterPrune(master, filters) == master

\* ------------------------------------------------------- the cost assigner
\* Costs of the modes time and temperature are in units of 2.5e-5; balanced
\* costs are dimensionless and counted in units of 1e-7. The absolute
\* tolerance 1e-4 of line 319 in these units:
AbsTol(optimize_by) == IF optimize_by = "balanced" THEN 1000 ELSE 4

\* 1 / 1e-6, the relative tolerance of line 319
RelTolDen == 1000000

\* np.log(max(time, 1.0)) / self.log_max_time in units of 1e-7, for the times
\* of the datasets (5 s, 10 s, 10.000025 s, 20 s and times up to 1 s) and the
\* dataset maxima they allow. A time up to 1 s (40000 units) is clamped to
\* 1.0, whose logarithm is 0; log_max_time is ln(max_time), or 1.0 when
\* that is not positive.
NormTime(time, max_time) ==
  IF time <= 40000 THEN 0
  ELSE IF time = max_time THEN 10000000
  ELSE IF max_time = 800000
    THEN (IF time = 200000 THEN 5372436
          ELSE IF time = 400000 THEN 7686218 ELSE 7686226)
  ELSE 9999989

\* temperature / self.max_temp in units of 1e-7, for the temperatures of
\* the datasets (150 C, 150.000125 C, 150.001 C, 174.9999 C, 175.000075 C,
\* 200 C, 300 C)
NormTemp(temp, max_temp) ==
  IF temp = max_temp THEN 10000000
  ELSE IF max_temp = 12000000 THEN (IF temp = 8000000 THEN 6666667 ELSE 5000000)
  ELSE IF max_temp = 6000040 THEN 9999933
  ELSE IF max_temp = 7000003 THEN 9999990
  ELSE 9999992

\* The weight of an edge with the branches of the modes time and
\* temperature exchanged
WeightModesExchanged(e, optimize_by, alpha, max_time, max_temp) ==
  IF optimize_by = "temperature" /\ e.attr = "time" THEN e.val
  ELSE IF optimize_by = "time" /\ e.attr = "temperature" THEN e.val
  ELSE IF optimize_by = "balanced" /\ e.attr = "time"
    THEN (alpha * NormTime(e.val, max_time)) \div 2
  ELSE IF optimize_by = "balanced" /\ e.attr = "temperature"
    THEN ((2 - alpha) * NormTemp(e.val, max_temp)) \div 2
  ELSE 0

\* alpha is counted in halves: 0, 1, 2 stand for 0, 0.5, 1.
\* Lines 285-302: the weight of an edge
Weight(e, optimize_by, alpha, max_time, max_temp) ==
  IF optimize_by = "time" /\ e.attr = "time" THEN e.val
  ELSE IF optimize_by = "temperature" /\ e.attr = "temperature" THEN e.val
  ELSE IF optimize_by = "balanced" /\ e.attr = "time"
    THEN (alpha * NormTime(e.val, max_time)) \div 2
  ELSE IF optimize_by = "balanced" /\ e.attr = "temperature"
    THEN ((2 - alpha) * NormTemp(e.val, max_temp)) \div 2
  ELSE 0

\* Lines 276-304: the weighted graph has the nodes and edges of the pruned
\* graph; an edge's val becomes its weight, its attr is kept
WeightedGraph(pruned, optimize_by, alpha, max_time, max_temp) ==
  [nodes |-> pruned.nodes,
   edges |-> { [u |-> e.u, v |-> e.v, attr |-> e.attr, val |-> e.val,
                weight |-> Weight(e, optimize_by, alpha, max_time, max_temp)] :
               e \in pruned.edges }]

\* ------------------------------------------------------------- the search
\* All simple paths from node u to node t, as sequences of nodes
RECURSIVE PathsFrom(_, _, _)
PathsFrom(g, u, t) ==
  IF u = t THEN { <<u>> }
  ELSE UNION { { <<u>> \o p : p \in PathsFrom(g, v, t) } : v \in Successors(g, u) }

EdgeOf(g, u, v) == CHOOSE e \in g.edges : e.u = u /\ e.v = v

RECURSIVE PathCost(_, _)
PathCost(wg, p) ==
  IF Len(p) < 2 THEN 0 ELSE EdgeOf(wg, p[1], p[2]).weight + PathCost(wg, Tail(p))

\* nx.shortest_path_length(wg, 'SOURCE', target, 'weight'): the least total
\* weight of a path; NetworkXNoPath when HasPath is FALSE
HasPath(wg, target) == target \in ReachFrom(wg, {SOURCE})

ShortestPathLength(wg, target) ==
  SetMin({ PathCost(wg, p) : p \in PathsFrom(wg, SOURCE, target) })

\* tolerance = max(1e-4, cost * 1e-6). Costs are whole numbers of units, so a
\* difference of costs exceeds cost * 1e-6 exactly when it exceeds its floor.
Tolerance(cost, optimize_by) ==
  LET rel == cost \div RelTolDen
  IN IF rel > AbsTol(optimize_by) THEN rel ELSE AbsTol(optimize_by)

Abs(x) == IF x < 0 THEN 0 - x ELSE x

\* The decimal digits of a natural number, as Python prints them
RECURSIVE Digits(_)
Digits(n) == IF n < 10 THEN <<n>> ELSE Append(Digits(n \div 10), n % 10)

\* Order of the strings of two naturals followed by the same non-digit text
\* (a space or a point, below every digit)
RECURSIVE DigitsLess(_, _)
DigitsLess(a, b) ==
  IF b = <<>> THEN FALSE
  ELSE IF a = <<>> THEN TRUE
  ELSE IF Head(a) = Head(b) THEN DigitsLess(Tail(a), Tail(b))
  ELSE Head(a) < Head(b)

\* Order of the labels "Hardness: {h} HRC"; "nan" comes after every digit
HardnessLabelLess(m, n) ==
  IF m.val = NaN THEN FALSE
  ELSE IF n.val = NaN THEN TRUE
  ELSE DigitsLess(Digits(m.val), Digits(n.val))

\* Lines 307-308: final_target_nodes, sorted by label
RECURSIVE SortTargets(_)
SortTargets(S) ==
  IF S = {} THEN <<>>
  ELSE LET m == CHOOSE x \in S : \A y \in S \ {x} : HardnessLabelLess(x, y)
       IN <<m>> \o SortTargets(S \ {m})

FinalTargetNodes(wg) == SortTargets(TargetNodes(wg))

\* One iteration of the loop of lines 316-327 on the scan state
\* [inf, min, targets] (inf = TRUE: min_global_cost is float('inf'))
ScanCompare(st, target, cost, tolerance) ==
  IF st.inf \/ cost < st.min - tolerance
    THEN [inf |-> FALSE, min |-> cost, targets |-> <<target>>]
  ELSE IF Abs(cost - st.min) <= tolerance
    THEN [st EXCEPT !.targets = Append(st.targets, target)]
  ELSE st

ScanCost(st, target, cost, optimize_by) ==
  ScanCompare(st, target, cost, Tolerance(cost, optimize_by))

ScanStep(st, wg, target, optimize_by) ==
  IF ~HasPath(wg, target) THEN st
  ELSE ScanCost(st, target, ShortestPathLength(wg, target), optimize_by)

RECURSIVE ScanTargets(_, _, _, _, _)
ScanTargets(st, wg, targets, k, optimize_by) ==
  IF k > Len(targets) THEN st
  ELSE ScanTargets(ScanStep(st, wg, targets[k], optimize_by), wg, targets, k + 1, optimize_by)

\* nx.all_shortest_paths(wg, 'SOURCE', target, weight='weight'): the paths of
\* least total weight (exactly equal weights)
ShortestPathSet(wg, target) ==
  LET least == ShortestPathLength(wg, target)
  IN { p \in PathsFrom(wg, SOURCE, target) : PathCost(wg, p) = least }

\* Order of the labels "Time: {t} s | id:{i}"
TimeLabelLess(m, n) ==
  \/ DigitsLess(Digits(m.val), Digits(n.val))
  \/ m.val = n.val /\ DigitsLess(Digits(m.id), Digits(n.id))

\* The order in which all_shortest_paths yields the paths to one target: the
\* order in which Dijkstra settles their Temperature nodes, i.e. by the
\* distance of the Time node, then by the order in which Time nodes are
\* pushed (adjacency order, which lines 277-284 make the sorted label order).
YieldedBefore(wg, p, q) ==
  LET dp == EdgeOf(wg, p[1], p[2]).weight + EdgeOf(wg, p[2], p[3]).weight
      dq == EdgeOf(wg, q[1], q[2]).weight + EdgeOf(wg, q[2], q[3]).weight
  IN \/ dp < dq
     \/ dp = dq /\ StrLess(p[2].name, q[2].name)
     \/ dp = dq /\ p[2] = q[2] /\ TimeLabelLess(p[3], q[3])

RECURSIVE YieldOrder(_, _)
YieldOrder(wg, S) ==
  IF S = {} THEN <<>>
  ELSE LET m == CHOOSE x \in S : \A y \in S \ {x} : YieldedBefore(wg, x, y)
       IN <<m>> \o YieldOrder(wg, S \ {m})

AllShortestPaths(wg, target) == YieldOrder(wg, ShortestPathSet(wg, target))

\* The structural validation asking for six nodes, as if the paths ended
\* in SINK
ValidPathSixNodes(wg, path) ==
  /\ Len(path) >= 6
  /\ wg.nodes[path[2]].type = "steel"
  /\ wg.nodes[path[3]].type = "time"
  /\ wg.nodes[path[4]].type = "temp"
  /\ wg.nodes[path[5]].type = "hardness"

\* Lines 341-360: the structural validation of a path
ValidPath(wg, path) ==
  /\ Len(path) >= 5
  /\ wg.nodes[path[2]].type = "steel"
  /\ wg.nodes[path[3]].type = "time"
  /\ wg.nodes[path[4]].type = "temp"
  /\ wg.nodes[path[5]].type = "hardness"

\* Lines 365-374: the composition entries under their original column names
CompositionDict(attrs) ==
  { << CompCols[CHOOSE k \in 1..Len(CompCols) :
                  /\ NormalizeKey(CompCols[k]) = pr[1]
                  /\ \A j \in 1..(k - 1) : NormalizeKey(CompCols[j]) # pr[1]], pr[2] >> :
    pr \in { x \in attrs.comp : x[1] \in DfCompKeys } }

\* The details record with the values of the Time and Temperature nodes
\* exchanged
DetailTimeTempExchanged(wg, path) ==
  [steel |-> wg.nodes[path[2]].steel_type,
   hardness |-> wg.nodes[path[5]].value,
   temp |-> wg.nodes[path[3]].value,
   time |-> wg.nodes[path[4]].value,
   composition |-> CompositionDict(wg.nodes[path[2]])]

\* Lines 376-383: the details record of an accepted path
Detail(wg, path) ==
  [steel |-> wg.nodes[path[2]].steel_type,
   hardness |-> wg.nodes[path[5]].value,
   temp |-> wg.nodes[path[4]].value,
   time |-> wg.nodes[path[3]].value,
   composition |-> CompositionDict(wg.nodes[path[2]])]

\* Lines 336-385: the accepted paths of the targets, in order, each paired
\* with its details
WithDetails(wg, paths) ==
  [i \in 1..Len(paths) |-> [path |-> paths[i], detail |-> Detail(wg, paths[i])]]

RECURSIVE ExtractPaths(_, _, _)
ExtractPaths(wg, targets, k) ==
  IF k > Len(targets) THEN <<>>
  ELSE WithDetails(wg, SelectSeq(AllShortestPaths(wg, targets[k]), LAMBDA p : ValidPath(wg, p)))
         \o ExtractPaths(wg, targets, k + 1)

\* Line 388: sorted(..., key = 'Found Steel'), a stable sort
RECURSIVE InsertBySteel(_, _)
InsertBySteel(sorted, x) ==
  IF sorted = <<>> THEN <<x>>
  ELSE IF StrLess(x.detail.steel, Head(sorted).detail.steel) THEN <<x>> \o sorted
  ELSE <<Head(sorted)>> \o InsertBySteel(Tail(sorted), x)

RECURSIVE SortBySteel(_, _)
SortBySteel(combined, k) ==
  IF k = 0 THEN <<>> ELSE InsertBySteel(SortBySteel(combined, k - 1), combined[k])

\* The values find_best_process returns or raises. is_tuple: the returned
\* value is a tuple; error: the error string ("" on success); has_graph:
\* the third component is a graph, not None.
Failure(msg) ==
  [raised |-> FALSE, is_tuple |-> TRUE, error |-> msg, paths |-> <<>>, cost |-> 0,
   has_graph |-> FALSE, graph |-> EmptyGraph, details |-> <<>>]

Raised ==
  [raised |-> TRUE, is_tuple |-> FALSE, error |-> "TypeError", paths |-> <<>>, cost |-> 0,
   has_graph |-> FALSE, graph |-> EmptyGraph, details |-> <<>>]

Success(combined, cost, pruned) ==
  [raised |-> FALSE, is_tuple |-> TRUE, error |-> "",
   paths |-> [i \in 1..Len(combined) |-> combined[i].path], cost |-> cost,
   has_graph |-> TRUE, graph |-> pruned,
   details |-> [i \in 1..Len(combined) |-> combined[i].detail]]

\* Lines 388-393: the extracted paths are sorted and returned
ReturnCombined(extracted, cost, pruned_graph) ==
  IF extracted = <<>> THEN Failure("Error extracting paths.")
  ELSE Success(SortBySteel(extracted, Len(extracted)), cost, pruned_graph)

\* Lines 329-393, with the state scan the loop of lines 316-327 ended in
FindFromScan(wg, pruned_graph, scan) ==
  IF scan.inf THEN Failure("No reachable path found.")
  ELSE ReturnCombined(ExtractPaths(wg, scan.targets, 1), scan.min, pruned_graph)

\* Lines 309-393, with final_target_nodes
FindAmongTargets(wg, pruned_graph, final_target_nodes, optimize_by) ==
  IF final_target_nodes = <<>> THEN Failure("No complete path found.")
  ELSE FindFromScan(wg, pruned_graph,
                    ScanTargets([inf |-> TRUE, min |-> 0, targets |-> <<>>], wg,
                                final_target_nodes, 1, optimize_by))

\* Lines 306-393, with the weighted graph wg of the pruned graph
FindInWeighted(wg, pruned_graph, optimize_by) ==
  FindAmongTargets(wg, pruned_graph, FinalTargetNodes(wg), optimize_by)

\* Lines 272-393, with what _prune_graph returned or raised
FindInPruned(pr, max_time, max_temp, optimize_by, alpha) ==
  IF pr.raised THEN Raised
  ELSE IF pr.none \/ Cardinality(NodesOf(pr.g)) <= 1
    THEN Failure("No steel found matching criteria.")
  ELSE FindInWeighted(WeightedGraph(pr.g, optimize_by, alpha, max_time, max_temp),
                      pr.g, optimize_by)

\* SteelGraph.find_best_process
FindBestProcess(master, max_time, max_temp, filters, optimize_by, alpha) ==
  FindInPruned(PruneGraph(master, filters), max_time, max_temp, optimize_by, alpha)

\* ------------------------------------------------------------ the queries
WithoutMax(v) == [v EXCEPT !.has_max = FALSE]

NotNumeric(v) == [v EXCEPT !.numeric = FALSE]

\* The filter mappings of the queries: ranges of hardness (HRC) and of time
\* (units of 2.5e-5 s) and temperature, composition filters on carbon keyed by the element
\* symbol and by the column name (100 = 10.0 %wt), a steel type, a range
\* without 'max', a range with string bounds, and the empty mapping.
FilterChoices ==
  { <<>>,
    << <<K_hardness_range, RangeVal(45, 55)>> >>,
    << <<K_hardness_range, RangeVal(45, 65)>> >>,
    << <<K_hardness_range, RangeVal(70, 80)>> >>,
    << <<K_time_range, RangeVal(0, 400000)>> >>,
    << <<K_time_range, RangeVal(1, 2)>> >>,
    << <<K_time_range, WithoutMax(RangeVal(0, 0))>> >>,
    << <<K_time_range, NotNumeric(RangeVal(0, 0))>> >>,
    << <<K_temperature_range, RangeVal(0, 6000000)>> >>,
    << << <<"C">>, CompVal(">", 100)>> >>,
    << <<ColC, CompVal(">", 100)>> >>,
    << <<ColC, CompVal(">", 5)>> >>,
    << <<K_steel_type, StrVal(<<"x">>)>> >> }

\* A query of consultas.json. alpha is counted in halves. The query with
\* alpha = 2.0 asks for steel Y, whose records share one time and one
\* temperature: all its chains cost the same, and the shortest paths do not
\* depend on the order in which Dijkstra's algorithm settles the nodes.
Query(optimize_by, has_alpha, alpha, filters) ==
  [has_query_name |-> TRUE, has_optimize_by |-> TRUE, has_filters |-> TRUE,
   optimize_by |-> optimize_by, has_alpha |-> has_alpha, alpha |-> alpha, filters |-> filters]

Queries ==
  { Query("time", FALSE, 0, f) : f \in FilterChoices }
    \cup { Query(m, FALSE, 0, << <<K_hardness_range, RangeVal(45, 65)>> >>) :
             m \in {"temperature", "balanced"} }
    \cup { Query("temperature", FALSE, 0, <<>>) }
    \cup { Query("balanced", TRUE, a, << <<K_hardness_range, RangeVal(45, 65)>> >>) : a \in {0, 2} }
    \cup { Query("balanced", TRUE, 4, << <<K_steel_type, StrVal(<<"y">>)>> >>) }
    \cup { Query("cost", FALSE, 0, << <<K_hardness_range, RangeVal(45, 55)>> >>),
           [Query("time", FALSE, 0, <<>>) EXCEPT !.has_filters = FALSE] }

\* validate_query: TRUE when it returns the query, FALSE when it returns None
QueryAccepted(query) ==
  /\ query.has_query_name /\ query.has_optimize_by /\ query.has_filters
  /\ query.optimize_by \in {"time", "temperature", "balanced"}
  /\ query.filters # <<>>

\* validate_query gives a balanced query without alpha the alpha 0.5
Validated(query) ==
  IF query.optimize_by = "balanced" /\ ~query.has_alpha
    THEN [query EXCEPT !.has_alpha = TRUE, !.alpha = 1]
  ELSE query

\* execute_query: alpha = query.get('alpha', 0.5)
AlphaOf(query) == IF query.has_alpha THEN query.alpha ELSE 1

\* _run_algorithm: the flag it returns with the result of find_best_process
RunSuccess(outcome) == ~outcome.raised /\ outcome.is_tuple

\* _run_algorithm: the four components it returns before the flag. What
\* find_best_process returned when that is a tuple, else an error string
\* with 0, None and [].
RunResult(outcome) ==
  IF outcome.raised THEN Failure("Execution error")
  ELSE IF outcome.is_tuple THEN outcome
  ELSE Failure(outcome.error)

\* generate_text_report raises KeyError at line 45 for a dict with 'min' and
\* without 'max'
ReportRaises(filters) ==
  \E i \in 1..Len(filters) :
    filters[i][2].kind = "range" /\ filters[i][2].has_min /\ ~filters[i][2].has_max

\* generate_text_report: the status and the reason it writes. execute_query
\* passes a tuple when success is TRUE, else the first component alone.
Report(run, success) ==
  IF success THEN [status |-> "SUCCESS", reason |-> ""]
  ELSE [status |-> "FAILURE", reason |-> run.error]

NoReport == [status |-> "NONE", reason |-> ""]

\* plot_full_graph, lines 145-154: every node gets the attribute 'sort_val'
WithSortVal(attrs) ==
  IF attrs.has_sort_val THEN attrs
  ELSE [attrs EXCEPT !.has_sort_val = TRUE, !.sort_val = attrs.value]

PlotFullGraphEffect(g) ==
  [g EXCEPT !.nodes = [n \in NodesOf(g) |-> WithSortVal(g.nodes[n])]]

\* --------------------------------------------------------------- the state
VARIABLES
  pc,        \* where main is
  df,        \* the records of the preprocessed dataset
  graph,     \* SteelGraph.graph, the master graph
  built,     \* the master graph as _build_master_graph left it
  nq,        \* len(queries)
  idx,       \* the loop index of main
  query,     \* the query being executed
  pruned,    \* what _prune_graph returned to find_best_process
  outcome,   \* what find_best_process returned or raised
  run,       \* what _run_algorithm returned, without its flag
  success,   \* the flag _run_algorithm returned
  report,    \* the report written for the query
  preprocess_ok,  \* what preprocess.main() returns
  readable        \* whether pd.read_csv can read the preprocessed file

vars ==
  << pc, df, graph, built, nq, idx, query, pruned, outcome, run, success, report,
     preprocess_ok, readable >>

NoQuery == Query("", FALSE, 0, <<>>)

NoPruned == [raised |-> FALSE, none |-> TRUE, g |-> EmptyGraph]

Init ==
  /\ pc = "preprocess"
  /\ df \in Datasets
  /\ graph = EmptyGraph
  /\ built = EmptyGraph
  /\ nq = 0
  /\ idx = 0
  /\ query = NoQuery
  /\ pruned = NoPruned
  /\ outcome = Failure("")
  /\ run = Failure("")
  /\ success = FALSE
  /\ report = NoReport
  /\ preprocess_ok \in BOOLEAN
  /\ readable \in BOOLEAN

\* main going on to build the graph whatever preprocess.main() returned
PreprocessUnchecked ==
  /\ pc = "preprocess"
  /\ pc' = "build"
  /\ UNCHANGED << preprocess_ok, readable, df, graph, built, nq, idx, query, pruned, outcome, run, success, report >>

\* main, step 1: preprocess.main() returns True or False
Preprocess ==
  /\ pc = "preprocess"
  /\ pc' = IF preprocess_ok THEN "build" ELSE "aborted"
  /\ UNCHANGED << preprocess_ok, readable, df, graph, built, nq, idx, query, pruned, outcome, run, success, report >>

\* main, step 2: SteelGraph(path) builds the graph, or raises when the file
\* cannot be read or the builder raises
BuildGraph ==
  /\ pc = "build"
  /\ IF readable /\ ~BuildRaises(df)
       THEN /\ graph' = BuildMasterGraph(df)
            /\ built' = BuildMasterGraph(df)
            /\ pc' = "plot"
       ELSE /\ pc' = "aborted"
            /\ UNCHANGED << graph, built >>
  /\ UNCHANGED << preprocess_ok, readable, df, nq, idx, query, pruned, outcome, run, success, report >>

\* main, step 3: plot_full_graph(graph.get_master_graph(), path)
PlotFullGraph ==
  /\ pc = "plot"
  /\ graph' = PlotFullGraphEffect(graph)
  /\ pc' = "load"
  /\ UNCHANGED << preprocess_ok, readable, df, built, nq, idx, query, pruned, outcome, run, success, report >>

\* main, step 4: load_queries(); an empty list ends the run
LoadQueries ==
  /\ pc = "load"
  /\ \E n \in 0..MaxQueries :
       /\ nq' = n
       /\ idx' = 1
       /\ pc' = IF n = 0 THEN "aborted" ELSE "loop"
  /\ UNCHANGED << preprocess_ok, readable, df, graph, built, query, pruned, outcome, run, success, report >>

\* main, lines 324-327: the next query of the list is validated
ValidateQuery ==
  /\ pc = "loop"
  /\ idx <= nq
  /\ \E q \in Queries :
       IF QueryAccepted(q)
         THEN /\ query' = Validated(q)
              /\ pc' = "run"
              /\ idx' = idx
         ELSE /\ query' = q
              /\ pc' = "loop"
              /\ idx' = idx + 1
  /\ pruned' = NoPruned
  /\ outcome' = Failure("")
  /\ run' = Failure("")
  /\ success' = FALSE
  /\ report' = NoReport
  /\ UNCHANGED << preprocess_ok, readable, df, graph, built, nq >>

\* execute_query, step 1: _run_algorithm calls find_best_process
RunAlgorithm ==
  /\ pc = "run"
  /\ outcome' = FindBestProcess(graph, MaxTimeOf(df), MaxTempOf(df), query.filters,
                                query.optimize_by, AlphaOf(query))
  /\ run' = RunResult(outcome')
  /\ success' = RunSuccess(outcome')
  /\ pruned' = PruneGraph(graph, query.filters)
  /\ graph' = SelfGraphAfterPrune(graph, query.filters)
  /\ pc' = "report"
  /\ UNCHANGED << preprocess_ok, readable, df, built, nq, idx, query, report >>

\* execute_query, line 78
WantsVisualizations ==
  success /\ run.has_graph /\ Cardinality(NodesOf(run.graph)) > 0

\* execute_query, step 2: generate_text_report; its exceptions leave main
GenerateReport ==
  /\ pc = "report"
  /\ IF ReportRaises(query.filters)
       THEN /\ pc' = "crashed"
            /\ UNCHANGED << idx, report >>
       ELSE /\ report' = Report(run, success)
            /\ IF WantsVisualizations
                 THEN pc' = "visualize" /\ idx' = idx
                 ELSE pc' = "loop" /\ idx' = idx + 1
  /\ UNCHANGED << preprocess_ok, readable, df, graph, built, nq, query, pruned, outcome, run, success >>

\* execute_query, step 3: _generate_visualizations catches what the plots raise
GenerateVisualizations ==
  /\ pc = "visualize"
  /\ pc' = "loop"
  /\ idx' = idx + 1
  /\ UNCHANGED << preprocess_ok, readable, df, graph, built, nq, query, pruned, outcome, run, success, report >>

\* main, step 5: generate_index_html() after the loop
GenerateIndex ==
  /\ pc = "loop"
  /\ idx > nq
  /\ pc' = "done"
  /\ UNCHANGED << preprocess_ok, readable, df, graph, built, nq, idx, query, pruned, outcome, run, success, report >>

Next ==
  \/ Preprocess
  \/ BuildGraph
  \/ PlotFullGraph
  \/ LoadQueries
  \/ ValidateQuery
  \/ RunAlgorithm
  \/ GenerateReport
  \/ GenerateVisualizations
  \/ GenerateIndex

Spec == Init /\ [][Next]_vars

\* ------------------------------------------------------------ properties
\* find_best_process has returned for the current query
Returned == pc \in {"report", "visualize"}

\* ... with a success tuple
Succeeded == Returned /\ ~outcome.raised /\ outcome.error = ""

\* ... with the failure shape (error_string, 0, None, [])
Failed == Returned /\ ~outcome.raised /\ outcome.error # ""

\* The weighted graph of the current query's pruned subgraph
QueryWeighted ==
  WeightedGraph(pruned.g, query.optimize_by, AlphaOf(query), MaxTimeOf(df), MaxTempOf(df))

\* All SOURCE->Hardness paths of a graph
HardnessPaths(g) == UNION { PathsFrom(g, SOURCE, t) : t \in TargetNodes(g) }

\* The least total weight over all SOURCE->Hardness paths
TrueMinimum(wg) == SetMin({ PathCost(wg, p) : p \in HardnessPaths(wg) })

SeqRange(q) == { q[i] : i \in 1..Len(q) }

\* C1 (P3 optimality): whenever find_best_process succeeds, the cost it
\* returns equals the least total weight over all SOURCE->Hardness paths of
\* the weighted pruned subgraph.
C1_Optimality == Succeeded => outcome.cost = TrueMinimum(QueryWeighted)

\* C2 (P4 tie completeness): whenever find_best_process succeeds, every
\* SOURCE->Hardness path of the weighted subgraph whose cost is within the tie
\* tolerance of the global minimum is in the returned path list.
C2_TieCompleteness ==
  Succeeded =>
    LET wg == QueryWeighted
        least == TrueMinimum(wg)
    IN \A p \in HardnessPaths(wg) :
         PathCost(wg, p) - least <= Tolerance(least, query.optimize_by)
           => p \in SeqRange(outcome.paths)

\* Node n lies on a SOURCE->Hardness path of g
OnSourceHardnessPath(g, n) ==
  /\ n \in ReachFrom(g, {SOURCE})
  /\ \E t \in TargetNodes(g) : t \in ReachFrom(g, {n})

\* _prune_graph has returned a subgraph for the current query
PrunedToSubgraph == Returned /\ ~pruned.raised /\ ~pruned.none

\* C3 (P2 reachability): every node of a subgraph returned by _prune_graph
\* lies on at least one SOURCE->Hardness path inside that subgraph.
C3_Reachability ==
  PrunedToSubgraph => \A n \in NodesOf(pruned.g) : OnSourceHardnessPath(pruned.g, n)

\* The element symbol a composition filter key names: the key up to its
\* first space ("C" for the keys "C" and "C (%wt)")
RECURSIVE ElementSymbol(_)
ElementSymbol(key) ==
  IF key = <<>> \/ Head(key) = " " THEN <<>> ELSE <<Head(key)>> \o ElementSymbol(Tail(key))

\* The dataset's value of an element for a steel
ElementValue(steel, symbol) ==
  FirstRowOf(df, steel).c

IsElement(symbol) == \E k \in 1..Len(CompCols) : ElementSymbol(CompCols[k]) = symbol

\* The steel satisfies the composition filter entry
SatisfiesComposition(steel, entry) ==
  ~CompFails(ElementValue(steel, ElementSymbol(entry[1])), entry[2].op, entry[2].val)

CompositionEntries(filters) ==
  { filters[i] : i \in { j \in 1..Len(filters) :
      filters[j][2].kind = "comp" /\ IsElement(ElementSymbol(filters[j][1])) } }

SteelTypeEntries(filters) ==
  { filters[i] : i \in { j \in 1..Len(filters) : filters[j][1] = K_steel_type } }

RangeEntries(filters, key) ==
  { filters[i] : i \in { j \in 1..Len(filters) :
      filters[j][1] = key /\ filters[j][2].has_min /\ filters[j][2].has_max } }

\* C4 (P1 subset): every Steel node of the pruned subgraph satisfies the
\* steel_type filter and every composition filter of the query, and every
\* Time/Temperature/Hardness node has its value inside the inclusive range
\* of its range filter.
C4_Subset ==
  PrunedToSubgraph =>
    \A n \in NodesOf(pruned.g) :
      LET a == pruned.g.nodes[n]
      IN /\ a.type = "steel" =>
              /\ \A e \in SteelTypeEntries(query.filters) :
                   Lower(Strip(a.steel_type)) = Lower(Strip(e[2].str))
              /\ \A e \in CompositionEntries(query.filters) :
                   SatisfiesComposition(a.steel_type, e)
         /\ a.type \in {"time", "temp", "hardness"} =>
              \A e \in RangeEntries(query.filters, RangeKeyOf(a.type)) :
                e[2].min <= a.value /\ a.value <= e[2].max

\* The path is the chain of row i of the dataset (row id i - 1)
IsRowChain(p, i) ==
  /\ Len(p) = 5
  /\ p[1] = SOURCE
  /\ p[2] = Node("steel", df[i].steel, 0, 0)
  /\ p[3] = Node("time", <<>>, df[i].time, i - 1)
  /\ p[4] = Node("temp", <<>>, df[i].temp, i - 1)
  /\ p[5] = Node("hardness", <<>>, df[i].hardness, 0)

NoPhantomChains(g) ==
  /\ \A p \in HardnessPaths(g) :
       Cardinality({ i \in 1..Len(df) : IsRowChain(p, i) }) = 1
  /\ \A n \in NodesOf(g) :
       /\ g.nodes[n].type = "time" =>
            /\ Cardinality(Predecessors(g, n)) = 1
            /\ \A m \in Predecessors(g, n) : g.nodes[m].type = "steel"
            /\ Cardinality(Successors(g, n)) = 1
            /\ \A m \in Successors(g, n) : g.nodes[m].type = "temp" /\ m.id = n.id
       /\ g.nodes[n].type = "temp" =>
            /\ Cardinality(Successors(g, n)) = 1
            /\ \A m \in Successors(g, n) : g.nodes[m].type = "hardness"

\* C5 (no phantom chains): in the master graph and in every pruned subgraph,
\* every SOURCE->Steel->Time->Temperature->Hardness path is the chain of
\* exactly one row; a Time node has exactly one Steel predecessor and one
\* Temperature successor of the same row id, a Temperature node exactly one
\* Hardness successor.
C5_NoPhantomChains ==
  /\ built # EmptyGraph => NoPhantomChains(graph)
  /\ PrunedToSubgraph => NoPhantomChains(pruned.g)

\* Two rows of one steel share their time and temperature values and differ
\* in hardness, and a query has been answered on a pruned subgraph that
\* holds both chains.
C5_Witness ==
  /\ PrunedToSubgraph
  /\ Len(df) = 2
  /\ df[1].steel = df[2].steel /\ df[1].time = df[2].time /\ df[1].temp = df[2].temp
  /\ df[1].hardness # df[2].hardness
  /\ Cardinality(HardnessPaths(pruned.g)) = 2

C7_Immutable == built # EmptyGraph => graph = built

\* C8 (batch continuation): main ends only after every query of the list
\* has been reached by the loop and the index has been generated.
C8_BatchContinuation == pc = "crashed" => idx > nq

\* C9 (failure is surfaced): when find_best_process returns its failure
\* shape, _run_algorithm yields success = False and the report, once
\* written, is the FAILURE form with the error string as its reason.
C9_FailureSurfaced ==
  Failed =>
    /\ ~success
    /\ report # NoReport => report.status = "FAILURE" /\ report.reason = outcome.error

\* The query has a composition filter, keyed by an element symbol, that no
\* steel of the dataset satisfies
UnsatisfiableBySymbol(filters) ==
  \E e \in CompositionEntries(filters) :
    /\ e[1] = ElementSymbol(e[1])
    /\ \A i \in KeptRows(df) : ~SatisfiesComposition(df[i].steel, e)

\* C10 (scenario D): a composition filter keyed by an element symbol that no
\* steel satisfies yields the no-match failure.
C10_NoMatch ==
  (Returned /\ UnsatisfiableBySymbol(query.filters)) =>
    outcome.error = "No steel found matching criteria."

\* The Hardness nodes of the master graph that survive the elimination of
\* steel nodes (step 1) and of range nodes (step 2) for the current query
SurvivingHardness ==
  LET nf == NormalizedFilters(query.filters, Len(query.filters))
  IN TargetNodes(graph) \ RangeNodesToRemove(graph, nf)

\* _prune_graph has returned (a subgraph or None) for the current query
PruneReturned == Returned /\ ~pruned.raised

ScenarioAQuery == Query("time", FALSE, 0, << <<K_hardness_range, RangeVal(45, 55)>> >>)

\* SOURCE -> Steel X -> time 10 s -> temperature 200 C -> hardness 50 (row 0)
ScenarioAPath ==
  << SOURCE, Node("steel", <<"X">>, 0, 0), Node("time", <<>>, 400000, 0),
     Node("temp", <<>>, 8000000, 0), Node("hardness", <<>>, 50, 0) >>

\* Scenario A has been answered
ScenarioAReturned == df = ScenarioDataset /\ query = ScenarioAQuery /\ Returned

\* C12 (scenario A): hardness_range [45, 55] with optimize_by = time on the
\* scenario dataset returns exactly the path X / 10 s / 200 C / 50 HRC with
\* cost 10, and the pruned subgraph holds no node of steel Y or of its record.
C12_ScenarioA ==
  ScenarioAReturned =>
    /\ outcome.paths = << ScenarioAPath >>
    /\ outcome.cost = 400000
    /\ Len(outcome.details) = 1
    /\ outcome.details[1].steel = <<"X">> /\ outcome.details[1].time = 400000
    /\ outcome.details[1].temp = 8000000 /\ outcome.details[1].hardness = 50
    /\ \A n \in NodesOf(outcome.graph) : n.name # <<"Y">> /\ n.id # 2 /\ n.val # 60

C12_Witness == ScenarioAReturned /\ outcome.has_graph

\* The query of scenario B: no constraint, optimize_by = temperature
ScenarioBQuery == Query("temperature", FALSE, 0, <<>>)

\* SOURCE -> Steel X -> time 20 s -> temperature 150 C -> hardness 50 (row 1)
ScenarioBPath ==
  << SOURCE, Node("steel", <<"X">>, 0, 0), Node("time", <<>>, 800000, 1),
     Node("temp", <<>>, 6000000, 1), Node("hardness", <<>>, 50, 0) >>

\* C13 (scenario B): once the loop of main has taken the query with the empty
\* filter mapping and optimize_by = temperature on the scenario dataset, the
\* query is executed and answered with the single path X / 20 s / 150 C /
\* 50 HRC and cost 150.
C13_ScenarioB ==
  (df = ScenarioDataset /\ query = ScenarioBQuery) =>
    \/ pc = "run"
    \/ /\ outcome.paths = << ScenarioBPath >>
       /\ outcome.cost = 6000000

\* What find_best_process returns for the current query on the master graph
\* as the first query of the run sees it
FirstQueryAnswer ==
  FindBestProcess(PlotFullGraphEffect(BuildMasterGraph(df)), MaxTimeOf(df), MaxTempOf(df),
                  query.filters, query.optimize_by, AlphaOf(query))

PathsUnder(optimize_by, alpha) ==
  SeqRange(FindBestProcess(graph, MaxTimeOf(df), MaxTempOf(df), query.filters,
                           optimize_by, alpha).paths)

\* A balanced query with the given alpha (in halves) has been answered
BalancedReturned(alpha) ==
  Returned /\ ~outcome.raised /\ query.optimize_by = "balanced" /\ AlphaOf(query) = alpha

\* C15 (P6, alpha = 0): a balanced query with alpha = 0 returns the same set
\* of paths as the same filters under optimize_by = temperature.
C15_AlphaZero ==
  BalancedReturned(0) => SeqRange(outcome.paths) = PathsUnder("temperature", 1)

\* C16 (P6, alpha = 1): a balanced query with alpha = 1 returns the same set
\* of paths as the same filters under optimize_by = time.
C16_AlphaOne ==
  BalancedReturned(2) => SeqRange(outcome.paths) = PathsUnder("time", 1)

\* The layer the naming scheme of _build_master_graph gives a node
LayerOfKind(kind) ==
  CASE kind = "SOURCE" -> 0
    [] kind = "steel" -> 1
    [] kind = "time" -> 2
    [] kind = "temp" -> 3
    [] kind = "hardness" -> 4
    [] kind = "SINK" -> 5

\* C17 (layered DAG): in the master graph the builder leaves, every node
\* carries the layer tag of its kind (SOURCE 0, Steel 1, Time 2, Temperature 3,
\* Hardness 4, SINK 5), every edge joins two nodes of the graph and goes from
\* layer k to layer k+1, and every SOURCE->SINK path visits one node of each
\* layer in order.
C17_LayeredDAG ==
  /\ \A n \in NodesOf(built) :
       /\ built.nodes[n].layer \in 0..5
       /\ built.nodes[n].layer = LayerOfKind(n.kind)
  /\ \A e \in built.edges :
       /\ e.u \in NodesOf(built)
       /\ e.v \in NodesOf(built)
       /\ built.nodes[e.v].layer = built.nodes[e.u].layer + 1
  /\ NodesOf(built) # {} =>
       \A p \in PathsFrom(built, SOURCE, SINK) :
         Len(p) = 6 /\ \A k \in 1..6 : built.nodes[p[k]].layer = k - 1

\* A graph built from several records with several SOURCE->SINK paths
C17_Witness ==
  /\ Len(df) >= 2
  /\ NodesOf(built) # {}
  /\ Cardinality(PathsFrom(built, SOURCE, SINK)) >= 2

\* A record with its four required fields
ValidRecord(row) ==
  row.steel # <<>> /\ row.time # NaN /\ row.temp # NaN /\ row.hardness # NaN

\* The nodes of a kind in a graph
NodesOfKind(g, kind) == { n \in NodesOf(g) : n.kind = kind }

ValidRecordNodes(rows) ==
  {SOURCE, SINK} \cup UNION { { Node("steel", rows[i].steel, 0, 0),
                                Node("time", <<>>, rows[i].time, i - 1),
                                Node("temp", <<>>, rows[i].temp, i - 1),
                                Node("hardness", <<>>, rows[i].hardness, 0) } :
                              i \in { j \in 1..Len(rows) : ValidRecord(rows[j]) } }

\* C19 (builder error policy): when the preprocessed file can be read, the
\* build fails exactly when no record has all four required fields (the graph
\* would have no Steel node), and otherwise the graph holds the nodes of the
\* records with all four fields and nothing of the others.
C19_BuilderErrorPolicy ==
  [][(pc = "build" /\ readable) =>
       /\ pc' = "aborted" <=> \A i \in 1..Len(df) : ~ValidRecord(df[i])
       /\ pc' # "aborted" => NodesOf(built') = ValidRecordNodes(df)]_vars

\* Preprocessing fails, or SteelGraph(path) raises
StartupFails == ~preprocess_ok \/ ~readable \/ BuildRaises(df)

\* C20 (startup abort ordering): when preprocessing fails or the graph
\* construction raises, main returns at once, and nothing follows: no query is
\* executed, no report is written, no index is generated. A query is executed
\* only with the graph built, and the index is generated only after the loop
\* over the queries has ended.
C20_StartupAbortOrdering ==
  [][/\ (pc = "preprocess" /\ ~preprocess_ok) => pc' = "aborted"
     /\ (pc = "build" /\ (~readable \/ BuildRaises(df))) => pc' = "aborted"
     /\ pc # "aborted"
     /\ StartupFails =>
          /\ pc' \in {"build", "aborted"}
          /\ query' = NoQuery /\ outcome' = Failure("") /\ report' = NoReport
     /\ pc' = "run" => (pc = "loop" /\ NodesOf(built) # {} /\ ~StartupFails)
     /\ pc' = "done" => (pc = "loop" /\ idx > nq /\ ~StartupFails)]_vars

\* main has returned because the graph construction raised on a record
\* without a steel identifier
C20_Witness ==
  /\ pc = "aborted"
  /\ preprocess_ok /\ readable /\ BuildRaises(df)
  /\ query = NoQuery /\ report = NoReport

\* The scan state of lines 313-327 after the first k targets of the list
ScanAfter(wg, k) ==
  ScanTargets([inf |-> TRUE, min |-> 0, targets |-> <<>>], wg,
              SubSeq(FinalTargetNodes(wg), 1, k), 1, query.optimize_by)

\* The scan treats a reachable target as the rule with the tolerance of the
\* current minimum does
ScanFollowsMinimumRule(st, wg, target) ==
  (HasPath(wg, target) /\ ~st.inf) =>
    ScanStep(st, wg, target, query.optimize_by)
      = ScanCompare(st, target, ShortestPathLength(wg, target),
                    Tolerance(st.min, query.optimize_by))

\* C21 (tie tolerance rule): at every step of the scan over the targets, the
\* candidate is appended exactly when |cost - min| <= max(1e-4, min * 1e-6)
\* and replaces the minimum exactly when it is below the minimum by more than
\* that tolerance, the tolerance being that of the current minimum.
C21_ToleranceOfMinimum ==
  (Returned /\ ~pruned.raised /\ ~pruned.none) =>
    \A k \in 1..Len(FinalTargetNodes(QueryWeighted)) :
      ScanFollowsMinimumRule(ScanAfter(QueryWeighted, k - 1), QueryWeighted,
                             FinalTargetNodes(QueryWeighted)[k])

\* The weight the rule of a mode gives an edge: the value of the Time node
\* on a Steel->Time edge in mode time, the value of the Temperature node on
\* a Time->Temperature edge in mode temperature
RuleWeight(e, optimize_by) ==
  IF optimize_by = "time" /\ e.u.kind = "steel" /\ e.v.kind = "time" THEN e.v.val
  ELSE IF optimize_by = "temperature" /\ e.u.kind = "time" /\ e.v.kind = "temp" THEN e.v.val
  ELSE 0

\* A query has been answered from a pruned subgraph
Weighted == Returned /\ ~pruned.raised /\ ~pruned.none

\* C22 (weight rule): in the modes time and temperature every edge of the
\* weighted graph has the weight of the rule; in every mode the SOURCE->Steel,
\* Temperature->Hardness and Hardness->SINK edges weigh 0; the cost of a
\* SOURCE->Hardness path is the time (temperature) of its record.
C22_WeightRule ==
  Weighted =>
    /\ \A e \in QueryWeighted.edges :
         /\ query.optimize_by \in {"time", "temperature"} =>
              e.weight = RuleWeight(e, query.optimize_by)
         /\ << e.u.kind, e.v.kind >> \in { <<"SOURCE", "steel">>, <<"temp", "hardness">>,
                                         <<"hardness", "SINK">> } => e.weight = 0
    /\ \A p \in HardnessPaths(QueryWeighted) :
         /\ query.optimize_by = "time" => PathCost(QueryWeighted, p) = p[3].val
         /\ query.optimize_by = "temperature" => PathCost(QueryWeighted, p) = p[4].val

\* A time query answered from a subgraph with two records of different
\* times and temperatures
C22_Witness ==
  /\ Weighted
  /\ query.optimize_by = "time"
  /\ \E p, q \in HardnessPaths(QueryWeighted) :
       p[3].val # q[3].val /\ p[4].val # q[4].val /\ p[3].val # p[4].val

\* C23 (non-negative weights): every edge of the weighted graph of a query
\* that reaches the shortest-path computation has a weight >= 0.
C23_NonNegativeWeights ==
  Weighted => \A e \in QueryWeighted.edges : e.weight >= 0

\* C24 (query admission): a query passed to find_best_process has its three
\* required fields, optimize_by in {time, temperature, balanced} and, when
\* balanced, an alpha in [0, 1], which is 0.5 when the query gives none.
C24_QueryAdmission ==
  [][pc = "run" =>
       /\ query.has_query_name /\ query.has_optimize_by /\ query.has_filters
       /\ query.optimize_by \in {"time", "temperature", "balanced"}
       /\ query.optimize_by = "balanced" => AlphaOf(query) \in 0..2
       /\ \A q \in Queries :
            (query = Validated(q) /\ q.optimize_by = "balanced" /\ ~q.has_alpha)
              => AlphaOf(query) = 1]_vars

\* The Steel node fails the steel_type filter or a composition filter of
\* the mapping
FailsSteelFilters(n, filters) ==
  \/ \E e \in SteelTypeEntries(filters) : Lower(n.name) # Lower(e[2].str)
  \/ \E e \in CompositionEntries(filters) : ~SatisfiesComposition(n.name, e)

\* C25 (steel-node elimination): step 1 of the pruning removes a Steel node
\* of the master graph if and only if the node fails the steel_type filter
\* (compared after case folding) or at least one composition filter.
C25_SteelElimination ==
  Returned =>
    \A n \in NodesOfKind(graph, "steel") :
      n \in SteelNodesToRemove(graph, NormalizedFilters(query.filters, Len(query.filters)))
        <=> FailsSteelFilters(n, query.filters)

\* C26 (result shape): a successful query returns as many details as paths,
\* at least one; every path is SOURCE, a Steel node, a Time node, a
\* Temperature node and a Hardness node, without SINK; the i-th details
\* record holds the steel name and the time, temperature and hardness values
\* of the nodes 1..4 of the i-th path.
C26_ResultShape ==
  Succeeded =>
    /\ Len(outcome.paths) = Len(outcome.details)
    /\ Len(outcome.paths) > 0
    /\ \A i \in 1..Len(outcome.paths) :
         /\ Len(outcome.paths[i]) = 5
         /\ outcome.paths[i][1] = SOURCE
         /\ \A k \in 1..5 : graph.nodes[outcome.paths[i][k]].layer = k - 1
         /\ \A k \in 1..5 : outcome.paths[i][k] # SINK
         /\ outcome.details[i].steel = outcome.paths[i][2].name
         /\ outcome.details[i].time = outcome.paths[i][3].val
         /\ outcome.details[i].temp = outcome.paths[i][4].val
         /\ outcome.details[i].hardness = outcome.paths[i][5].val

\* A success with the paths of two steels, which the final sort put in the
\* order of the steel names against the order of their hardness
C26_Witness ==
  /\ Succeeded
  /\ \E i, j \in 1..Len(outcome.paths) :
       /\ i < j
       /\ StrLess(outcome.details[i].steel, outcome.details[j].steel)
       /\ outcome.details[i].hardness > outcome.details[j].hardness

\* C27 (output ordering): the returned pairs are in non-decreasing order of
\* steel name, and pairs of one steel are in the order of the row ids of
\* their Time/Temperature nodes.
C27_OutputOrdering ==
  Succeeded =>
    \A i, j \in 1..Len(outcome.paths) :
      i < j =>
        /\ ~StrLess(outcome.details[j].steel, outcome.details[i].steel)
        /\ outcome.details[i].steel = outcome.details[j].steel
             => outcome.paths[i][3].id < outcome.paths[j][3].id

\* The master graph after the removals of steps 1 and 2 for the current query
AfterRemovals(nf) ==
  RemoveNodes(RemoveNodes(graph, SteelNodesToRemove(graph, nf)),
              RangeNodesToRemove(graph, nf))

\* No Hardness node that survives the removals can be reached from SOURCE
NoTargetReachable(g) == \A t \in TargetNodes(g) : ~HasPath(g, t)

InsideRanges(value, filters, key) ==
  \A e \in RangeEntries(filters, key) :
    value # NaN /\ e[2].min <= value /\ value <= e[2].max

\* The record of row i is feasible for the mapping: its steel passes the
\* steel_type and composition filters and its three values lie inside the
\* ranges
FeasibleRow(i, filters) ==
  /\ ~Dropped(df[i])
  /\ ~FailsSteelFilters(Node("steel", df[i].steel, 0, 0), filters)
  /\ InsideRanges(df[i].time, filters, K_time_range)
  /\ InsideRanges(df[i].temp, filters, K_temperature_range)
  /\ InsideRanges(df[i].hardness, filters, K_hardness_range)

\* The chain SOURCE->Steel->Time->Temperature->Hardness of row i
RowChain(i) ==
  << SOURCE, Node("steel", df[i].steel, 0, 0), Node("time", <<>>, df[i].time, i - 1),
     Node("temp", <<>>, df[i].temp, i - 1), Node("hardness", <<>>, df[i].hardness, 0) >>

\* The chain is in the graph with its nodes and its edges
HasChain(g, chain) ==
  /\ \A k \in 1..5 : chain[k] \in NodesOf(g)
  /\ \A k \in 1..4 : chain[k + 1] \in Successors(g, chain[k])

\* C29 (pruning completeness): the chain of every feasible record of the
\* dataset is in the pruned subgraph and in the weighted graph, with all its
\* nodes and edges.
C29_PruningCompleteness ==
  PruneReturned =>
    \A i \in 1..Len(df) :
      FeasibleRow(i, query.filters) =>
        /\ ~pruned.none
        /\ HasChain(pruned.g, RowChain(i))
        /\ HasChain(QueryWeighted, RowChain(i))

\* A query whose range keeps a record with a value equal to the upper bound
\* and discards another record
C29_Witness ==
  /\ PruneReturned
  /\ \E i, j \in 1..Len(df) :
       /\ FeasibleRow(i, query.filters)
       /\ \E e \in RangeEntries(query.filters, K_time_range) : df[i].time = e[2].max
       /\ ~FeasibleRow(j, query.filters)
       /\ ~HasChain(pruned.g, RowChain(j))

\* C30 (dead error branches): find_best_process never returns "No complete
\* path found." nor "Error extracting paths.".
C30_DeadErrorBranches ==
  Returned =>
    /\ outcome.error # "No complete path found."
    /\ outcome.error # "Error extracting paths."

\* A query answered from a pruned subgraph with Hardness nodes, of which
\* every shortest path passed the validation
C30_Witness ==
  /\ Weighted
  /\ Succeeded
  /\ Len(FinalTargetNodes(QueryWeighted)) >= 2
  /\ Len(outcome.paths) >= 2

====
